---- MODULE Spec2Model ----
(***************************************************************************)
(* Model of the `fetch` tool handler of better-fetch (src/src/index.ts).   *)
(*                                                                         *)
(* Strings are sequences of one-character strings, so that length,         *)
(* substring, includes and the regular-expression rewrites are computed    *)
(* the way the JavaScript code computes them.                              *)
(***************************************************************************)
EXTENDS Integers, Sequences, FiniteSets, TLC

VARIABLES
    wasmReady,   \* TRUE when the engine package exports a readiness promise
    initCalls,   \* number of initWasm() calls made so far
    ready,       \* state of the module-level promise `ready`
    pc,          \* per invocation: where the async handler is suspended
    args,        \* per invocation: { includeLinks, maxLength }
    resp,        \* per invocation: the Response the network call yielded
    convOut,     \* per invocation: what convert() returned
    result,      \* per invocation: the returned envelope
    netCalls,    \* per invocation: calls of fetch()
    bodyReads,   \* per invocation: calls of response.text()
    convCalls,   \* per invocation: calls of convert()
    thrown,      \* per invocation: the exceptions raised inside the try block
    srcText,     \* text handed to a post-processing step
    optLinks,    \* the includeLinks flag of that step
    outText,     \* text after the step
    outText2,    \* text after the step is applied a second time
    stage        \* progress of the post-processing step

vars == <<wasmReady, initCalls, ready, pc, args, resp, convOut, result,
          netCalls, bodyReads, convCalls, thrown,
          srcText, optLinks, outText, outText2, stage>>

handlerVars == <<wasmReady, initCalls, ready, pc, args, resp, convOut, result,
                 netCalls, bodyReads, convCalls, thrown>>

textVars == <<srcText, optLinks, outText, outText2, stage>>

----------------------------------------------------------------------------
(* Bounds *)

\* concurrent invocations in SpecConc
NumInvocations == 2
\* largest maxLength argument tried
MaxMaxLength == 4
\* tokens concatenated into a converter output in SpecLinks
MaxTokens == 5
\* characters of a text in SpecWhitespace
MaxWsLen == 8

----------------------------------------------------------------------------
(* Literals of the source *)

NL == "\n"

ErrorPrefix == <<"E", "r", "r", "o", "r", " ", "f", "e", "t", "c", "h", "i", "n", "g", " ", "U", "R", "L", ":", " ">>

TruncationSuffix == <<"\n", "\n", "[", "C", "o", "n", "t", "e", "n", "t", " ", "t", "r", "u", "n", "c", "a", "t", "e", "d", ".", ".", ".", "]">>

TextHtml == <<"t", "e", "x", "t", "/", "h", "t", "m", "l">>

AppXhtml == <<"a", "p", "p", "l", "i", "c", "a", "t", "i", "o", "n", "/", "x", "h", "t", "m", "l">>

----------------------------------------------------------------------------
(* JavaScript string primitives *)

Min(a, b) == IF a < b THEN a ELSE b

Max(a, b) == IF a > b THEN a ELSE b

\* String.prototype.substring(start, end): both arguments are clamped to
\* 0..length and swapped when start > end; indices are 0-based, end exclusive.
JsSubstring(s, start, end) ==
    LET a == Min(Max(start, 0), Len(s))
        b == Min(Max(end, 0), Len(s))
    IN  SubSeq(s, Min(a, b) + 1, Max(a, b))

\* String.prototype.includes(sub)
JsIncludes(s, sub) ==
    \E i \in 0..(Len(s) - Len(sub)) : SubSeq(s, i + 1, i + Len(sub)) = sub

\* the character class \s, restricted to the characters the model uses
IsSpace(c) == c \in {" ", NL, "\t", "\r"}

\* first index j >= i with s[j] = c, or Len(s) + 1 when there is none
NextOf(s, i, c) ==
    IF \E j \in i..Len(s) : s[j] = c
    THEN CHOOSE j \in i..Len(s) : s[j] = c /\ \A k \in i..(j - 1) : s[k] # c
    ELSE Len(s) + 1

----------------------------------------------------------------------------
(* markdown.replace(/\[([^\]]+)\]\([^)]+\)/g, "$1") *)

\* index of the "]" closing the label of a match starting at i, 0 if the
\* regular expression does not match at i
LinkLabelEnd(s, i) ==
    IF i > Len(s) \/ s[i] # "[" THEN 0
    ELSE LET j == NextOf(s, i + 1, "]")
         IN  IF j > Len(s) \/ j = i + 1 THEN 0
             ELSE IF j + 1 > Len(s) \/ s[j + 1] # "(" THEN 0
             ELSE LET l == NextOf(s, j + 2, ")")
                  IN  IF l > Len(s) \/ l = j + 2 THEN 0 ELSE j

\* index of the ")" ending a match starting at i (only used when it matches)
LinkMatchEnd(s, i) == NextOf(s, LinkLabelEnd(s, i) + 2, ")")

RECURSIVE ReplaceLinksFrom(_, _)
ReplaceLinksFrom(s, i) ==
    IF i > Len(s) THEN <<>>
    ELSE IF LinkLabelEnd(s, i) > 0
         THEN SubSeq(s, i + 1, LinkLabelEnd(s, i) - 1)
                \o ReplaceLinksFrom(s, LinkMatchEnd(s, i) + 1)
         ELSE <<s[i]>> \o ReplaceLinksFrom(s, i + 1)

\* a replace without the g flag: only the first match is rewritten
RECURSIVE ReplaceFirstLinkFrom(_, _)
ReplaceFirstLinkFrom(s, i) ==
    IF i > Len(s) THEN <<>>
    ELSE IF LinkLabelEnd(s, i) > 0
         THEN SubSeq(s, i + 1, LinkLabelEnd(s, i) - 1)
                \o SubSeq(s, LinkMatchEnd(s, i) + 1, Len(s))
         ELSE <<s[i]>> \o ReplaceFirstLinkFrom(s, i + 1)

StripLinksFirstOnly(s) == ReplaceFirstLinkFrom(s, 1)

StripLinks(s) == ReplaceLinksFrom(s, 1)

\* if (!includeLinks) { markdown = markdown.replace(...) }
RemoveLinks(markdown, includeLinks) ==
    IF ~includeLinks THEN StripLinks(markdown) ELSE markdown

----------------------------------------------------------------------------
(* markdown.replace(/\n{4,}/g, "\n\n\n").replace(/^[\s\n]+/, "")           *)
(*         .replace(/[\s\n]+$/, "")                                        *)

\* number of consecutive newlines starting at i
RECURSIVE NewlineRun(_, _)
NewlineRun(s, i) ==
    IF i > Len(s) \/ s[i] # NL THEN 0 ELSE 1 + NewlineRun(s, i + 1)

RECURSIVE CollapseFrom(_, _)
CollapseFrom(s, i) ==
    IF i > Len(s) THEN <<>>
    ELSE IF NewlineRun(s, i) >= 4
         THEN <<NL, NL, NL>> \o CollapseFrom(s, i + NewlineRun(s, i))
         ELSE <<s[i]>> \o CollapseFrom(s, i + 1)

CollapseNewlines(s) == CollapseFrom(s, 1)

RECURSIVE TrimStart(_)
TrimStart(s) ==
    IF s # <<>> /\ IsSpace(Head(s)) THEN TrimStart(Tail(s)) ELSE s

RECURSIVE TrimEnd(_)
TrimEnd(s) ==
    IF s # <<>> /\ IsSpace(s[Len(s)])
    THEN TrimEnd(SubSeq(s, 1, Len(s) - 1)) ELSE s

\* the cleanup with the trailing trim forgotten
CleanWhitespaceNoTrimEnd(markdown) == TrimStart(CollapseNewlines(markdown))

CleanWhitespace(markdown) == TrimEnd(TrimStart(CollapseNewlines(markdown)))

----------------------------------------------------------------------------
(* if (maxLength && text.length > maxLength)                               *)
(*     text = text.substring(0, maxLength) + "\n\n[Content truncated...]"  *)

\* an optional number: undefined, or a value
Undefined == [defined |-> FALSE, value |-> 0]

Num(n) == [defined |-> TRUE, value |-> n]

\* JavaScript truthiness of an optional number
Truthy(n) == n.defined /\ n.value # 0

\* a cut that forgets the suffix
TruncateNoSuffix(text, maxLength) ==
    IF Truthy(maxLength) /\ Len(text) > maxLength.value
    THEN JsSubstring(text, 0, maxLength.value)
    ELSE text

Truncate(text, maxLength) ==
    IF Truthy(maxLength) /\ Len(text) > maxLength.value
    THEN JsSubstring(text, 0, maxLength.value) \o TruncationSuffix
    ELSE text

----------------------------------------------------------------------------
(* Values the environment supplies *)

Procs == 1..NumInvocations

StOK == <<"O", "K">>

StNotFound == <<"N", "o", "t", " ", "F", "o", "u", "n", "d">>

StUnavailable == <<"S", "e", "r", "v", "i", "c", "e", " ", "U", "n", "a", "v", "a", "i", "l", "a", "b", "l", "e">>

StatusLines ==
    { [status |-> 200, statusText |-> StOK],
      [status |-> 299, statusText |-> <<>>],
      [status |-> 300, statusText |-> <<>>],
      [status |-> 404, statusText |-> StNotFound],
      [status |-> 503, statusText |-> StUnavailable] }

\* a header value: absent (headers.get returns null) or a string
NoHeader == [present |-> FALSE, value |-> <<>>]

Header(v) == [present |-> TRUE, value |-> v]

CtHtmlCharset == <<"t", "e", "x", "t", "/", "h", "t", "m", "l", ";", " ", "c", "h", "a", "r", "s", "e", "t", "=", "u", "t", "f", "-", "8">>

CtHtmlUpper == <<"T", "e", "x", "t", "/", "H", "T", "M", "L", ";", " ", "c", "h", "a", "r", "s", "e", "t", "=", "u", "t", "f", "-", "8">>

CtXhtml == <<"a", "p", "p", "l", "i", "c", "a", "t", "i", "o", "n", "/", "x", "h", "t", "m", "l", "+", "x", "m", "l">>

CtJson == <<"a", "p", "p", "l", "i", "c", "a", "t", "i", "o", "n", "/", "j", "s", "o", "n">>

CtPlain == <<"t", "e", "x", "t", "/", "p", "l", "a", "i", "n">>

ContentTypes ==
    { NoHeader, Header(<<>>), Header(TextHtml), Header(CtHtmlCharset),
      Header(CtHtmlUpper), Header(CtXhtml), Header(CtJson), Header(CtPlain) }

JsonBody == <<"{", "\"", "a", "\"", ":", "1", "}">>

LinkWsBody == <<" ", NL, "[", "a", "]", "(", "b", ")", NL, NL, NL, NL, NL, " ">>

Bodies == { <<>>, JsonBody, LinkWsBody }

MdLink == <<"s", "e", "e", " ", "[", "a", "]", "(", "b", ")">>

MdBlank == <<NL, " ", "a", NL, NL, NL, NL, NL, "b", " ", NL>>

MdNested == <<"[", "[", "a", "]", "(", "b", ")", "]", "(", "c", ")">>

MdOutputs == { <<>>, <<"a", "b">>, MdLink, MdBlank, MdNested }

\* a thrown value: an Error with a message, or any other value with its
\* String() form
ErrFetchFailed ==
    [isError |-> TRUE,
     message |-> <<"f", "e", "t", "c", "h", " ", "f", "a", "i", "l", "e", "d">>,
     str     |-> <<"T", "y", "p", "e", "E", "r", "r", "o", "r", ":", " ", "f", "e", "t", "c", "h", " ", "f", "a", "i", "l", "e", "d">>]

ErrBody ==
    [isError |-> TRUE,
     message |-> <<"b", "o", "d", "y", " ", "u", "s", "e", "d">>,
     str     |-> <<"T", "y", "p", "e", "E", "r", "r", "o", "r", ":", " ", "b", "o", "d", "y", " ", "u", "s", "e", "d">>]

PanicValue ==
    [isError |-> FALSE,
     message |-> <<>>,
     str     |-> <<"w", "a", "s", "m", " ", "p", "a", "n", "i", "c">>]

NetThrown == { ErrFetchFailed }

TextThrown == { ErrBody }

ConvThrown == { PanicValue, ErrBody }

MaxLengths == { Undefined } \cup { Num(n) : n \in (-1)..MaxMaxLength }

ArgSet == [includeLinks : BOOLEAN, maxLength : MaxLengths]

Responses ==
    { [status |-> l.status, statusText |-> l.statusText, contentType |-> c,
       hasBody |-> FALSE, body |-> <<>>] : l \in StatusLines, c \in ContentTypes }

----------------------------------------------------------------------------
(* The handler *)

NoArgs == [includeLinks |-> TRUE, maxLength |-> Undefined]

NoResp == [status |-> 0, statusText |-> <<>>, contentType |-> NoHeader,
           hasBody |-> FALSE, body |-> <<>>]

NoConv == [returned |-> FALSE, md |-> <<>>]

NoResult == [returned |-> FALSE, isError |-> FALSE, text |-> <<>>]

DigitChars == <<"0", "1", "2", "3", "4", "5", "6", "7", "8", "9">>

\* `${response.status}`: the decimal form of a non-negative integer
RECURSIVE NumToString(_)
NumToString(n) ==
    IF n < 10 THEN <<DigitChars[n + 1]>>
    ELSE NumToString(n \div 10) \o <<DigitChars[(n % 10) + 1]>>

\* response.ok
ResponseOk(r) == 200 <= r.status /\ r.status <= 299

\* response.headers.get("content-type") || ""
ContentTypeOf(r) ==
    IF r.contentType.present /\ r.contentType.value # <<>>
    THEN r.contentType.value ELSE <<>>

\* the negation of the condition guarding the non-HTML branch
IsHtml(contentType) ==
    JsIncludes(contentType, TextHtml) \/ JsIncludes(contentType, AppXhtml)

\* return { content: [{ type: "text", text }] }
OkResult(text) ==
    [returned |-> TRUE, isError |-> FALSE, text |-> text]

\* the !response.ok branch with the isError flag forgotten
StatusErrorResultNoFlag(r) ==
    [returned |-> TRUE, isError |-> FALSE,
     text |-> ErrorPrefix \o NumToString(r.status) \o <<" ">> \o r.statusText]

\* return { content: [{ type: "text", text: `Error fetching URL: ...` }],
\*          isError: true } of the !response.ok branch
StatusErrorResult(r) ==
    [returned |-> TRUE, isError |-> TRUE,
     text |-> ErrorPrefix \o NumToString(r.status) \o <<" ">> \o r.statusText]

\* error instanceof Error ? error.message : String(error)
ErrorMessage(error) == IF error.isError THEN error.message ELSE error.str

\* the catch block
CaughtResult(error) ==
    [returned |-> TRUE, isError |-> TRUE,
     text |-> ErrorPrefix \o ErrorMessage(error)]

\* the three post-processing steps of the HTML path, in order
PostProcess(markdown, a) ==
    Truncate(CleanWhitespace(RemoveLinks(markdown, a.includeLinks)), a.maxLength)

\* const ready = wasmReady ?? initWasm();
ModuleLoad ==
    /\ wasmReady \in BOOLEAN
    /\ initCalls = IF wasmReady THEN 0 ELSE 1
    /\ ready = "pending"

HandlerInit ==
    /\ ModuleLoad
    /\ pc = [p \in Procs |-> "idle"]
    /\ args = [p \in Procs |-> NoArgs]
    /\ resp = [p \in Procs |-> NoResp]
    /\ convOut = [p \in Procs |-> NoConv]
    /\ result = [p \in Procs |-> NoResult]
    /\ netCalls = [p \in Procs |-> 0]
    /\ bodyReads = [p \in Procs |-> 0]
    /\ convCalls = [p \in Procs |-> 0]
    /\ thrown = [p \in Procs |-> <<>>]

TextIdle ==
    /\ srcText = <<>>
    /\ optLinks = TRUE
    /\ outText = <<>>
    /\ outText2 = <<>>
    /\ stage = "off"

\* the readiness promise settles
ResolveReady ==
    /\ ready = "pending"
    /\ ready' = "resolved"
    /\ UNCHANGED <<wasmReady, initCalls, pc, args, resp, convOut, result,
                   netCalls, bodyReads, convCalls>>
    /\ UNCHANGED thrown
    /\ UNCHANGED textVars

RejectReady ==
    /\ ready = "pending"
    /\ ready' = "rejected"
    /\ UNCHANGED <<wasmReady, initCalls, pc, args, resp, convOut, result,
                   netCalls, bodyReads, convCalls>>
    /\ UNCHANGED thrown
    /\ UNCHANGED textVars

\* the handler is called and suspends at `await ready`
Invoke(p, a) ==
    /\ pc[p] = "idle"
    /\ pc' = [pc EXCEPT ![p] = "awaitReady"]
    /\ args' = [args EXCEPT ![p] = a]
    /\ UNCHANGED <<wasmReady, initCalls, ready, resp, convOut, result,
                   netCalls, bodyReads, convCalls>>
    /\ UNCHANGED thrown
    /\ UNCHANGED textVars

\* a handler that does not wait for the engine
ReadyResumesNoWait(p) ==
    /\ pc[p] = "awaitReady"
    /\ pc' = [pc EXCEPT ![p] = "awaitFetch"]
    /\ netCalls' = [netCalls EXCEPT ![p] = @ + 1]
    /\ UNCHANGED <<wasmReady, initCalls, ready, args, resp, convOut, result,
                   bodyReads, convCalls>>
    /\ UNCHANGED thrown
    /\ UNCHANGED textVars

\* `await ready` resumes; the try block is entered and fetch() is called
ReadyResumes(p) ==
    /\ pc[p] = "awaitReady"
    /\ ready = "resolved"
    /\ pc' = [pc EXCEPT ![p] = "awaitFetch"]
    /\ netCalls' = [netCalls EXCEPT ![p] = @ + 1]
    /\ UNCHANGED <<wasmReady, initCalls, ready, args, resp, convOut, result,
                   bodyReads, convCalls>>
    /\ UNCHANGED thrown
    /\ UNCHANGED textVars

\* `await ready` throws: it stands before the try block, so the handler's
\* promise is rejected and nothing is returned
ReadyThrows(p) ==
    /\ pc[p] = "awaitReady"
    /\ ready = "rejected"
    /\ pc' = [pc EXCEPT ![p] = "rejected"]
    /\ UNCHANGED <<wasmReady, initCalls, ready, args, resp, convOut, result,
                   netCalls, bodyReads, convCalls>>
    /\ UNCHANGED thrown
    /\ UNCHANGED textVars

\* a handler without the !response.ok branch
FetchSettlesNoStatusCheck(p, r) ==
    /\ pc[p] = "awaitFetch"
    /\ resp' = [resp EXCEPT ![p] = r]
    /\ pc' = [pc EXCEPT ![p] =
                IF IsHtml(ContentTypeOf(r)) THEN "awaitTextHtml" ELSE "awaitTextRaw"]
    /\ bodyReads' = [bodyReads EXCEPT ![p] = @ + 1]
    /\ UNCHANGED <<wasmReady, initCalls, ready, args, convOut, result,
                   netCalls, convCalls>>
    /\ UNCHANGED thrown
    /\ UNCHANGED textVars

\* fetch() yields a response: the status check, then the content-type check
\* and the call of response.text() of the branch taken
FetchSettles(p, r) ==
    /\ pc[p] = "awaitFetch"
    /\ resp' = [resp EXCEPT ![p] = r]
    /\ IF ~ResponseOk(r)
       THEN /\ result' = [result EXCEPT ![p] = StatusErrorResult(r)]
            /\ pc' = [pc EXCEPT ![p] = "done"]
            /\ UNCHANGED bodyReads
       ELSE /\ pc' = [pc EXCEPT ![p] =
                        IF IsHtml(ContentTypeOf(r))
                        THEN "awaitTextHtml" ELSE "awaitTextRaw"]
            /\ bodyReads' = [bodyReads EXCEPT ![p] = @ + 1]
            /\ UNCHANGED result
    /\ UNCHANGED <<wasmReady, initCalls, ready, args, convOut,
                   netCalls, convCalls>>
    /\ UNCHANGED thrown
    /\ UNCHANGED textVars

\* fetch() rejects: the catch block returns the error envelope
FetchThrows(p, e) ==
    /\ pc[p] = "awaitFetch"
    /\ result' = [result EXCEPT ![p] = CaughtResult(e)]
    /\ pc' = [pc EXCEPT ![p] = "done"]
    /\ UNCHANGED <<wasmReady, initCalls, ready, args, resp, convOut,
                   netCalls, bodyReads, convCalls>>
    /\ thrown' = [thrown EXCEPT ![p] = Append(@, e)]
    /\ UNCHANGED textVars

\* a non-HTML branch that post-processes the body like markdown
PassthroughTextPostProcessed(p, body) ==
    /\ pc[p] = "awaitTextRaw"
    /\ resp' = [resp EXCEPT ![p].hasBody = TRUE, ![p].body = body]
    /\ result' = [result EXCEPT ![p] = OkResult(PostProcess(body, args[p]))]
    /\ pc' = [pc EXCEPT ![p] = "done"]
    /\ UNCHANGED <<wasmReady, initCalls, ready, args, convOut,
                   netCalls, bodyReads, convCalls>>
    /\ UNCHANGED thrown
    /\ UNCHANGED textVars

\* response.text() of the non-HTML branch yields the body
PassthroughText(p, body) ==
    /\ pc[p] = "awaitTextRaw"
    /\ resp' = [resp EXCEPT ![p].hasBody = TRUE, ![p].body = body]
    /\ result' = [result EXCEPT ![p] = OkResult(Truncate(body, args[p].maxLength))]
    /\ pc' = [pc EXCEPT ![p] = "done"]
    /\ UNCHANGED <<wasmReady, initCalls, ready, args, convOut,
                   netCalls, bodyReads, convCalls>>
    /\ UNCHANGED thrown
    /\ UNCHANGED textVars

\* response.text() of the HTML branch yields the body; convert() returns
\* markdown, which is post-processed and returned
HtmlText(p, body, md) ==
    /\ pc[p] = "awaitTextHtml"
    /\ resp' = [resp EXCEPT ![p].hasBody = TRUE, ![p].body = body]
    /\ convCalls' = [convCalls EXCEPT ![p] = @ + 1]
    /\ convOut' = [convOut EXCEPT ![p] = [returned |-> TRUE, md |-> md]]
    /\ result' = [result EXCEPT ![p] = OkResult(PostProcess(md, args[p]))]
    /\ pc' = [pc EXCEPT ![p] = "done"]
    /\ UNCHANGED <<wasmReady, initCalls, ready, args, netCalls, bodyReads>>
    /\ UNCHANGED thrown
    /\ UNCHANGED textVars

\* response.text() of the HTML branch yields the body; convert() throws
HtmlConvertThrows(p, body, e) ==
    /\ pc[p] = "awaitTextHtml"
    /\ resp' = [resp EXCEPT ![p].hasBody = TRUE, ![p].body = body]
    /\ convCalls' = [convCalls EXCEPT ![p] = @ + 1]
    /\ result' = [result EXCEPT ![p] = CaughtResult(e)]
    /\ pc' = [pc EXCEPT ![p] = "done"]
    /\ UNCHANGED <<wasmReady, initCalls, ready, args, convOut,
                   netCalls, bodyReads>>
    /\ thrown' = [thrown EXCEPT ![p] = Append(@, e)]
    /\ UNCHANGED textVars

\* response.text() rejects, in either branch
TextThrows(p, e) ==
    /\ pc[p] \in {"awaitTextRaw", "awaitTextHtml"}
    /\ result' = [result EXCEPT ![p] = CaughtResult(e)]
    /\ pc' = [pc EXCEPT ![p] = "done"]
    /\ UNCHANGED <<wasmReady, initCalls, ready, args, resp, convOut,
                   netCalls, bodyReads, convCalls>>
    /\ thrown' = [thrown EXCEPT ![p] = Append(@, e)]
    /\ UNCHANGED textVars

----------------------------------------------------------------------------
(* Spec: one invocation, every argument and every response of the sets     *)

Init == HandlerInit /\ TextIdle

Next ==
    \/ ResolveReady
    \/ RejectReady
    \/ \E a \in ArgSet : Invoke(1, a)
    \/ ReadyResumes(1)
    \/ ReadyThrows(1)
    \/ \E r \in Responses : FetchSettles(1, r)
    \/ \E e \in NetThrown : FetchThrows(1, e)
    \/ \E b \in Bodies : PassthroughText(1, b)
    \/ \E b \in Bodies, md \in MdOutputs : HtmlText(1, b, md)
    \/ \E b \in Bodies, e \in ConvThrown : HtmlConvertThrows(1, b, e)
    \/ \E e \in TextThrown : TextThrows(1, e)

Spec == Init /\ [][Next]_vars

----------------------------------------------------------------------------
(* SpecConc: NumInvocations concurrent invocations, interleaved at every   *)
(* await, over a reduced set of arguments and responses                    *)

ConcArgs == { NoArgs }

ConcResponses ==
    { [status |-> 200, statusText |-> StOK, contentType |-> Header(TextHtml),
       hasBody |-> FALSE, body |-> <<>>],
      [status |-> 200, statusText |-> StOK, contentType |-> Header(CtJson),
       hasBody |-> FALSE, body |-> <<>>],
      [status |-> 404, statusText |-> StNotFound, contentType |-> NoHeader,
       hasBody |-> FALSE, body |-> <<>>] }

ConcBodies == { JsonBody }

ConcMd == { MdLink }

NextConc ==
    \/ ResolveReady
    \/ RejectReady
    \/ \E p \in Procs :
        \/ \E a \in ConcArgs : Invoke(p, a)
        \/ ReadyResumes(p)
        \/ ReadyThrows(p)
        \/ \E r \in ConcResponses : FetchSettles(p, r)
        \/ \E e \in NetThrown : FetchThrows(p, e)
        \/ \E b \in ConcBodies : PassthroughText(p, b)
        \/ \E b \in ConcBodies, md \in ConcMd : HtmlText(p, b, md)
        \/ \E b \in ConcBodies : HtmlConvertThrows(p, b, PanicValue)
        \/ \E e \in TextThrown : TextThrows(p, e)

SpecConc == Init /\ [][NextConc]_vars

----------------------------------------------------------------------------
(* SpecLinks: the link rewrite applied to converter outputs built from     *)
(* up to MaxTokens tokens                                                  *)

Tokens ==
    { <<"[">>, <<"]">>, <<"(">>, <<")">>, <<"a">>, <<"]", "(">>,
      <<"[", "a", "]", "(", "a", ")">>,
      <<"[", "(", "a", ")", "]", "(", "a", ")">> }

RECURSIVE Flatten(_)
Flatten(ts) == IF ts = <<>> THEN <<>> ELSE Head(ts) \o Flatten(Tail(ts))

\* the concatenations of at most n tokens
TokenTexts(n) ==
    { Flatten(ts) : ts \in UNION { [1..k -> Tokens] : k \in 0..n } }

InitLinks ==
    /\ HandlerInit
    /\ wasmReady = TRUE
    /\ srcText \in TokenTexts(MaxTokens)
    /\ optLinks \in BOOLEAN
    /\ outText = <<>>
    /\ outText2 = <<>>
    /\ stage = "input"

RewriteLinks ==
    /\ stage = "input"
    /\ outText' = RemoveLinks(srcText, optLinks)
    /\ stage' = "done"
    /\ UNCHANGED <<srcText, optLinks, outText2>>
    /\ UNCHANGED handlerVars

SpecLinks == InitLinks /\ [][RewriteLinks]_vars

----------------------------------------------------------------------------
(* SpecWhitespace: the whitespace cleanup applied to every text of up to   *)
(* MaxWsLen characters, and applied again to its own output                *)

WsAlphabet == { NL, " ", "a" }

\* the texts of at most n characters
WsTexts(n) == UNION { [1..k -> WsAlphabet] : k \in 0..n }

InitWhitespace ==
    /\ HandlerInit
    /\ wasmReady = TRUE
    /\ srcText \in WsTexts(MaxWsLen)
    /\ optLinks = TRUE
    /\ outText = <<>>
    /\ outText2 = <<>>
    /\ stage = "input"

Normalize ==
    /\ stage = "input"
    /\ outText' = CleanWhitespace(srcText)
    /\ stage' = "once"
    /\ UNCHANGED <<srcText, optLinks, outText2>>
    /\ UNCHANGED handlerVars

NormalizeAgain ==
    /\ stage = "once"
    /\ outText2' = CleanWhitespace(outText)
    /\ stage' = "twice"
    /\ UNCHANGED <<srcText, optLinks, outText>>
    /\ UNCHANGED handlerVars

NextWhitespace == Normalize \/ NormalizeAgain

SpecWhitespace == InitWhitespace /\ [][NextWhitespace]_vars

----------------------------------------------------------------------------
(* Vocabulary of the properties *)

Ended(p) == pc[p] \in {"done", "rejected"}

\* a response arrived for the invocation
GotResponse(p) == resp[p].status # 0

\* the status lies in the success range
InSuccessRange(p) == resp[p].status \in 200..299

UpperLetters == <<"A", "B", "C", "D", "E", "F", "G", "H", "I", "J", "K", "L", "M", "N", "O", "P", "Q", "R", "S", "T", "U", "V", "W", "X", "Y", "Z">>

LowerLetters == <<"a", "b", "c", "d", "e", "f", "g", "h", "i", "j", "k", "l", "m", "n", "o", "p", "q", "r", "s", "t", "u", "v", "w", "x", "y", "z">>

LowerChar(c) ==
    IF \E i \in 1..26 : UpperLetters[i] = c
    THEN LowerLetters[CHOOSE i \in 1..26 : UpperLetters[i] = c]
    ELSE c

LowerCase(s) == [i \in 1..Len(s) |-> LowerChar(s[i])]

Contains(s, sub) ==
    \E i \in 1..(Len(s) - Len(sub) + 1) :
        \A k \in 1..Len(sub) : s[i + k - 1] = sub[k]

\* the declared content type names HTML, in any letter case
DeclaresHtml(p) ==
    /\ resp[p].contentType.present
    /\ \/ Contains(LowerCase(resp[p].contentType.value), TextHtml)
       \/ Contains(LowerCase(resp[p].contentType.value), AppXhtml)

\* the text has an occurrence of [label](target): a non-empty label
\* without "]", a non-empty target without ")"
HasLinkPattern(s) ==
    \E i \in 1..Len(s) :
        /\ s[i] = "["
        /\ \E j \in (i + 2)..(Len(s) - 1) :
              /\ s[j] = "]"
              /\ s[j + 1] = "("
              /\ \A k \in (i + 1)..(j - 1) : s[k] # "]"
              /\ \E l \in (j + 3)..Len(s) :
                    /\ s[l] = ")"
                    /\ \A k \in (j + 2)..(l - 1) : s[k] # ")"

\* the labels of the matches the single pass replaces
RECURSIVE ReplacedLabelsFrom(_, _)
ReplacedLabelsFrom(s, i) ==
    IF i > Len(s) THEN {}
    ELSE IF LinkLabelEnd(s, i) > 0
         THEN {SubSeq(s, i + 1, LinkLabelEnd(s, i) - 1)}
                \cup ReplacedLabelsFrom(s, LinkMatchEnd(s, i) + 1)
         ELSE ReplacedLabelsFrom(s, i + 1)

\* no replaced label contains "[" or begins with "("
LabelsArePlain(s) ==
    \A lbl \in ReplacedLabelsFrom(s, 1) :
        /\ lbl[1] # "("
        /\ \A k \in 1..Len(lbl) : lbl[k] # "["

HasNewlineRun(s, n) ==
    \E i \in 1..(Len(s) - n + 1) : \A k \in 0..(n - 1) : s[i + k] = NL

Whitespace == {" ", NL, "\t", "\r"}

\* the text the truncation step of the invocation receives
Untruncated(p) ==
    IF convOut[p].returned
    THEN CleanWhitespace(RemoveLinks(convOut[p].md, args[p].includeLinks))
    ELSE resp[p].body

\* the invocation returned page content
Succeeded(p) ==
    /\ pc[p] = "done"
    /\ InSuccessRange(p)
    /\ resp[p].hasBody
    /\ thrown[p] = <<>>

Text503 == <<"E", "r", "r", "o", "r", " ", "f", "e", "t", "c", "h", "i", "n", "g", " ", "U", "R", "L", ":", " ", "5", "0", "3", " ", "S", "e", "r", "v", "i", "c", "e", " ", "U", "n", "a", "v", "a", "i", "l", "a", "b", "l", "e">>

TextJsonCut == <<"{", "\"", "a", "\n", "\n", "[", "C", "o", "n", "t", "e", "n", "t", " ", "t", "r", "u", "n", "c", "a", "t", "e", "d", ".", ".", ".", "]">>

----------------------------------------------------------------------------
(* C1: every invocation of the handler ends by returning a result          *)
(* envelope; a failure at any step, the await of the readiness barrier     *)
(* included, is returned as isError = true with the text "Error fetching   *)
(* URL: <message>", and never leaves the handler as a rejected promise.    *)
C1_EveryFailureIsReturned ==
    \A p \in Procs :
        Ended(p) =>
            /\ pc[p] # "rejected"
            /\ result[p].returned
            /\ thrown[p] # <<>> =>
                 /\ result[p].isError
                 /\ result[p].text = ErrorPrefix \o ErrorMessage(thrown[p][1])

(* C2: a response with a status outside 200..299 is returned as isError    *)
(* with the text "Error fetching URL: <status> <statusText>"; the body is  *)
(* not read, the converter is not invoked and the text is not              *)
(* post-processed, whatever content type, includeLinks and maxLength are.  *)
C2_NonSuccessShortCircuits ==
    \A p \in Procs :
        (Ended(p) /\ GotResponse(p) /\ ~InSuccessRange(p)) =>
            /\ result[p].returned
            /\ result[p].isError
            /\ result[p].text =
                 ErrorPrefix \o NumToString(resp[p].status) \o <<" ">>
                             \o resp[p].statusText
            /\ (resp[p].status = 503 /\ resp[p].statusText = StUnavailable)
                 => result[p].text = Text503
            /\ bodyReads[p] = 0
            /\ ~resp[p].hasBody
            /\ convCalls[p] = 0
            /\ ~convOut[p].returned

C2_Witness ==
    /\ pc[1] = "done"
    /\ resp[1].status = 503
    /\ resp[1].contentType = Header(CtHtmlCharset)
    /\ ~args[1].includeLinks
    /\ args[1].maxLength = Num(1)
    /\ result[1].isError
    /\ result[1].text = Text503

C4_CaseInsensitiveClassification ==
    \A p \in Procs :
        /\ pc[p] = "awaitTextHtml" => DeclaresHtml(p)
        /\ pc[p] = "awaitTextRaw" => ~DeclaresHtml(p)

(* C5: for a successful response classified as non-HTML the converter is   *)
(* not invoked, isError is not set, and the returned text is the raw body, *)
(* changed by nothing but the maxLength truncation: link syntax,           *)
(* surrounding whitespace and newline runs are left as they are.           *)
C5_PassthroughReturnsRawBody ==
    \A p \in Procs :
        (Succeeded(p) /\ ~IsHtml(ContentTypeOf(resp[p]))) =>
            /\ convCalls[p] = 0
            /\ ~convOut[p].returned
            /\ result[p].returned
            /\ ~result[p].isError
            /\ \/ result[p].text = resp[p].body
               \/ /\ args[p].maxLength.defined
                  /\ Len(resp[p].body) > args[p].maxLength.value
                  /\ \E n \in 0..Len(resp[p].body) :
                        result[p].text =
                            SubSeq(resp[p].body, 1, n) \o TruncationSuffix
            /\ ~args[p].maxLength.defined => result[p].text = resp[p].body

C5_Witness ==
    /\ Succeeded(1)
    /\ resp[1].contentType = Header(CtPlain)
    /\ resp[1].body = LinkWsBody
    /\ ~args[1].includeLinks
    /\ args[1].maxLength = Num(MaxMaxLength)
    /\ result[1].text = SubSeq(LinkWsBody, 1, MaxMaxLength) \o TruncationSuffix

(* C6: with includeLinks = false the text after the single-pass rewrite    *)
(* has no occurrence of [label](target), for every converter output,       *)
(* nested or adjacent link syntax included; with includeLinks = true the   *)
(* converter output is not rewritten.                                      *)
C6_NoLinkPatternLeft ==
    stage = "done" =>
        IF optLinks THEN outText = srcText ELSE ~HasLinkPattern(outText)

(* C6, amended: with includeLinks = false the text after the single-pass   *)
(* rewrite has no occurrence of [label](target) whenever no replaced       *)
(* label contains "[" or begins with "("; with includeLinks = true the     *)
(* converter output is not rewritten.                                      *)
C6_NoLinkPatternLeftForPlainLabels ==
    stage = "done" =>
        IF optLinks THEN outText = srcText
        ELSE LabelsArePlain(srcText) => ~HasLinkPattern(outText)

C6_Witness ==
    /\ stage = "done"
    /\ ~optLinks
    /\ srcText = <<"(", "[", "a", "]", "(", "a", ")", "[", "a", "]", "(", "a", ")", "]">>
    /\ outText = <<"(", "a", "a", "]">>

(* C7: the whitespace normalization is idempotent: its output has no       *)
(* leading or trailing whitespace and no run of 4 or more newlines, and    *)
(* normalizing the output again returns it unchanged.                      *)
C7_NormalizationIdempotent ==
    /\ stage \in {"once", "twice"} =>
         /\ outText # <<>> =>
              /\ outText[1] \notin Whitespace
              /\ outText[Len(outText)] \notin Whitespace
         /\ ~HasNewlineRun(outText, 4)
    /\ stage = "twice" => outText2 = outText

C7_Witness ==
    /\ stage = "twice"
    /\ srcText = <<" ", "a", NL, NL, NL, NL, NL, "a">>
    /\ outText = <<"a", NL, NL, NL, "a">>
    /\ outText2 = outText

(* C8: in every returned result isError is set exactly when the status     *)
(* was outside the success range or an exception was thrown inside the     *)
(* pipeline; a successful conversion or passthrough never carries isError, *)
(* truncated or not, and an error result carries no page content.          *)
C8_IsErrorExactlyOnFailure ==
    \A p \in Procs :
        result[p].returned =>
            /\ result[p].isError <=>
                 (GotResponse(p) /\ ~InSuccessRange(p)) \/ thrown[p] # <<>>
            /\ Succeeded(p) => ~result[p].isError
            /\ result[p].isError =>
                 result[p].text \in
                    {ErrorPrefix \o NumToString(resp[p].status) \o <<" ">>
                                 \o resp[p].statusText}
                    \cup {ErrorPrefix \o e.message : e \in {thrown[p][i] : i \in 1..Len(thrown[p])}}
                    \cup {ErrorPrefix \o e.str : e \in {thrown[p][i] : i \in 1..Len(thrown[p])}}

C8_Witness ==
    /\ Succeeded(1)
    /\ convOut[1].returned
    /\ convOut[1].md = MdBlank
    /\ args[1].maxLength = Num(1)
    /\ ~result[1].isError
    /\ result[1].text = <<"a">> \o TruncationSuffix

(* C9: under every interleaving of concurrent invocations the readiness    *)
(* signal is the one created at module load: no invocation starts an       *)
(* initialization, and in every invocation the network call and the        *)
(* converter call happen only after that signal has resolved.              *)
C9_SharedReadinessBarrier ==
    /\ initCalls = IF wasmReady THEN 0 ELSE 1
    /\ \A p \in Procs :
        (netCalls[p] > 0 \/ convCalls[p] > 0 \/ bodyReads[p] > 0) =>
            ready = "resolved"

C9_Witness ==
    /\ ready = "resolved"
    /\ ~wasmReady
    /\ initCalls = 1
    /\ \A p \in Procs : netCalls[p] = 1
    /\ pc[1] = "awaitFetch"
    /\ convCalls[2] = 1

(* C10: with maxLength zero or negative and a non-empty text, the returned *)
(* text is the truncation suffix alone, on both paths.                     *)
C10_NonPositiveMaxLengthTruncates ==
    \A p \in Procs :
        ( /\ Succeeded(p)
          /\ args[p].maxLength.defined
          /\ args[p].maxLength.value <= 0
          /\ Untruncated(p) # <<>> ) =>
            result[p].text = TruncationSuffix

====
